---- MODULE Spec2Model ----
(***************************************************************************)
(* TripleA feedback bot (src/bot.py): the aiogram conversation handlers,   *)
(* the per-user FSM storage, the language cache and the "feedback"         *)
(* worksheet reached through gspread.                                      *)
(*                                                                         *)
(* One action per handler.  A handler is modelled whole: every store call  *)
(* it makes (with the outcome of each call chosen by the environment),     *)
(* every FSM write and every message it sends.  A handler that ends with   *)
(* an uncaught exception keeps the writes made before the exception.       *)
(*                                                                         *)
(* Environment assumptions, stated once:                                   *)
(*  - sends to the originating user succeed; sends to observers (ADMINS)   *)
(*    may fail one by one;                                                 *)
(*  - a store call ends "ok", "err" (an APIError, a transport error or a   *)
(*    timeout of asyncio.wait_for, with nothing written) or "ghost" (the   *)
(*    timeout of asyncio.wait_for, but the worker thread started by        *)
(*    asyncio.to_thread is not cancelled and its write lands);             *)
(*  - a cell is the string the sheet displays; the header of an existing   *)
(*    sheet holds the canonical column names, in any order, possibly with  *)
(*    further columns;                                                     *)
(*  - StatesGroup.get_state(cur_state) in the back branch of cb_answers    *)
(*    resolves the State whose name is cur_state;                          *)
(*  - set_user_lang writes _lang_cache and then the "users" worksheet;    *)
(*    the task cb_start creates for it is taken to finish its store calls  *)
(*    before the next update is handled.  The calls to the "users"         *)
(*    worksheet succeed in every specification but SpecLang, which draws   *)
(*    each of their outcomes;                                              *)
(*  - a restart of the process (SpecLang) empties MemoryStorage and        *)
(*    _lang_cache and keeps the worksheets.                                *)
(*                                                                         *)
(* reached and the afterSkip field of ev are history: no handler reads     *)
(* them.                                                                   *)
(***************************************************************************)
EXTENDS Integers, Sequences, FiniteSets, TLC

VARIABLES
    fsmState,   \* user -> current aiogram state ("None" when no session)
    fsmData,    \* user -> the FSM data dict (answers), a function on its keys
    langCache,  \* _lang_cache: a function on the users that chose a locale
    feedback,   \* the "feedback" worksheet: a sequence of rows of cells
    ev,         \* what the last handler did (messages, outcome, notifications)
    nEvents,    \* number of updates handled so far (also the clock)
    users,      \* the "users" worksheet: a sequence of rows of cells
    reached     \* history: user -> the states the session has been in since
                \* it was last begun (empty when there is no session)

vars == <<fsmState, fsmData, langCache, feedback, ev, nEvents, users, reached>>

----------------------------------------------------------------------------
\* Bounds of the model

\* updates handled in one run of Spec, SpecSurvey and SpecAmend
MaxEvents == 4
MaxSurveyEvents == 8
MaxAmendEvents == 5
MaxFlowEvents == 6
MaxNotifyEvents == 7
MaxLangEvents == 4
MaxPairEvents == 3
\* rows of the worksheet, the header included
MaxRows == 6

----------------------------------------------------------------------------
\* Configuration and catalogue

Users == {101, 102}
Actors == {101}
ADMINS == <<901, 902>>
DEFAULT_LOCALE == "ru"
Langs == {"ru", "uz"}

NoState == "None"
SurveyOrder == <<"Form:company", "Form:q1", "Form:q2", "Form:q3", "Form:q4", "Form:q5">>
Form == {"Form:company", "Form:q1", "Form:q2", "Form:q3", "Form:q4", "Form:q5",
         "Form:contact_name", "Form:contact_phone", "Form:contact_email",
         "Form:free_comment"}

FEEDBACK_HEADERS ==
    <<"timestamp", "user_id", "username", "full_name", "company",
      "q1_time_to_setup", "q2_statuses_score", "q3_what_inconvenient",
      "q4_missing_features", "q5_nps_recommend",
      "contact_name", "contact_phone", "contact_tg", "contact_email",
      "free_comment", "raw_json">>

\* TXT[lang][key] for the three q1 options (the strings stored as answers)
TXT(lang, key) ==
    CASE lang = "ru" /\ key = "q1_opt1" -> "do 15 minut"
      [] lang = "ru" /\ key = "q1_opt2" -> "15-30 minut"
      [] lang = "ru" /\ key = "q1_opt3" -> "bolee 30 minut"
      [] lang = "uz" /\ key = "q1_opt1" -> "15 daqiqagacha"
      [] lang = "uz" /\ key = "q1_opt2" -> "15-30 daqiqa"
      [] lang = "uz" /\ key = "q1_opt3" -> "30 daqiqadan ko'proq"
      [] OTHER -> lang \o ":" \o key

----------------------------------------------------------------------------
\* Body applied to x: names an intermediate result of a handler

Bind(x, Body(_)) == Body(x)

----------------------------------------------------------------------------
\* Strings

Digit == <<"0", "1", "2", "3", "4", "5", "6", "7", "8", "9">>

RECURSIVE Str(_)
\* str(n) for a natural number: its decimal digits
Str(n) == IF n < 10 THEN Digit[n + 1] ELSE Str(n \div 10) \o Digit[(n % 10) + 1]

\* (message.text or "").strip() on the texts the model sends
Strip(s) ==
    CASE s = " acme " -> "acme"
      [] s = " - " -> "-"
      [] OTHER -> s

StartsWithPlus(s) == s \in {"+99"}
StartsWithAt(s) == s \in {"@bob"}
\* txt.replace(" ", "").isdigit()
IsDigitsModuloSpaces(s) == s \in {"101", "102", "8", "9", "11", "1"}

\* datetime.now(...).isoformat(): the clock is the number of updates handled
Now == "t" \o Str(nEvents)

----------------------------------------------------------------------------
\* Users (aiogram.types.User)

Username(u) == IF u = 101 THEN "neo" ELSE ""
FullName(u) == IF u = 101 THEN "Neo A" ELSE "Bo"
\* f"@{username}" if username else str(id)
Uname(u) == IF Username(u) # "" THEN "@" \o Username(u) ELSE Str(u)

----------------------------------------------------------------------------
\* FSM data (a dict)

EmptyData == << >>
Get(d, k) == IF k \in DOMAIN d THEN d[k] ELSE ""
\* state.update_data(**kv)
UpdateData(d, kv) == kv @@ d

DataKeys == <<"company", "q1", "q2", "q3", "q4", "q5", "contact_name",
              "contact_phone", "contact_tg", "contact_email", "free_comment">>

RECURSIVE DumpFrom(_, _)
DumpFrom(d, i) ==
    IF i > Len(DataKeys) THEN ""
    ELSE (IF DataKeys[i] \in DOMAIN d
             THEN DataKeys[i] \o "=" \o d[DataKeys[i]] \o ";"
             ELSE "") \o DumpFrom(d, i + 1)

\* json.dumps(data): an injective rendering of the dict (keys in a fixed order)
JsonDumps(d) == "{" \o DumpFrom(d, 1) \o "}"

----------------------------------------------------------------------------
\* The store: outcomes of one call made through _io_to_sheets

Faults == {"err", "ghost"}
Outcomes == {"ok"} \cup Faults
\* the write of a call with this outcome reaches the sheet
Lands(o) == o \in {"ok", "ghost"}

\* range(1, 4): the attempts of one append_feedback_row call
MaxAttempts == 3
\* 0.7 * attempt seconds, in tenths of a second
BackoffTenths == 7

\* the outcomes of the write attempts of one call: faults, then possibly "ok"
AttemptPlans ==
    {p \in UNION {[1..n -> Outcomes] : n \in 1..MaxAttempts} :
        /\ \A i \in 1..(Len(p) - 1) : p[i] \in Faults
        /\ (Len(p) < MaxAttempts => p[Len(p)] = "ok")}

\* the outcome of _get_feedback_ws_and_map's calls: all fine, one of them
\* raises with nothing written, or the header write times out and lands
\* (the header is written to an empty sheet only)
GetPlans(sheet) == IF sheet = << >> THEN {"ok", "err", "ghost"} ELSE {"ok", "err"}

\* the store outcomes one append_feedback_row call can meet
AppendPlans(sheet) ==
    {[g |-> g, wp |-> <<"ok">>] : g \in GetPlans(sheet) \ {"ok"}}
    \cup {[g |-> "ok", wp |-> p] : p \in AttemptPlans}

RECURSIVE ColsUpTo(_, _)
\* the dict built from the first n names of the header: a later column of
\* the same name replaces an earlier one
ColsUpTo(header, n) ==
    IF n = 0 THEN << >> ELSE (header[n] :> n) @@ ColsUpTo(header, n - 1)

\* {name: i+1 for i, name in enumerate(header_row)}
NameToCol(header) == ColsUpTo(header, Len(header))

\* _get_feedback_ws_and_map; the worksheet handle ws it returns is known by
\* the number of write attempts that had failed when it was opened: none
GetFeedbackWsAndMap(sheet, g) ==
    IF sheet # << >> THEN
        \* the header row is read; nothing is written
        [raised |-> g = "err", sheet |-> sheet, name_to_col |-> NameToCol(sheet[1]),
         ws |-> 0]
    ELSE
        \* empty sheet: the canonical header is appended first
        [raised |-> g # "ok",
         sheet |-> IF Lands(g) THEN <<FEEDBACK_HEADERS>> ELSE sheet,
         name_to_col |-> NameToCol(FEEDBACK_HEADERS),
         ws |-> 0]

\* setv(name, val) of append_feedback_row
SetV(row, name_to_col, name, val) ==
    IF name \in DOMAIN name_to_col
        THEN [row EXCEPT ![name_to_col[name]] = val]
        ELSE row

\* the row append_feedback_row builds from the user and the data dict
BuildRow(name_to_col, u, data, now) ==
    LET r0 == [i \in 1..Cardinality(DOMAIN name_to_col) |-> ""]
        r1 == SetV(r0, name_to_col, "timestamp", now)
        r2 == SetV(r1, name_to_col, "user_id", Str(u))
        r3 == SetV(r2, name_to_col, "username", Username(u))
        r4 == SetV(r3, name_to_col, "full_name", FullName(u))
        r5 == SetV(r4, name_to_col, "company", Get(data, "company"))
        r6 == SetV(r5, name_to_col, "q1_time_to_setup", Get(data, "q1"))
        r7 == SetV(r6, name_to_col, "q2_statuses_score", Get(data, "q2"))
        r8 == SetV(r7, name_to_col, "q3_what_inconvenient", Get(data, "q3"))
        r9 == SetV(r8, name_to_col, "q4_missing_features", Get(data, "q4"))
        r10 == SetV(r9, name_to_col, "q5_nps_recommend", Get(data, "q5"))
    IN  SetV(r10, name_to_col, "raw_json", JsonDumps(data))

RECURSIVE WriteAttempts(_, _, _, _, _, _)
\* for attempt in range(1, 4): try ws.append_row(row) ... sleep(0.7 * attempt)
\* every attempt writes through the one handle ws bound before the loop
WriteAttempts(sheet, ws, row, attempt, plan, delays) ==
    IF attempt > MaxAttempts THEN
        [ok |-> FALSE, sheet |-> sheet, attempts |-> attempt - 1, delays |-> delays,
         handles |-> [k \in 1..(attempt - 1) |-> ws]]
    ELSE IF plan[attempt] = "ok" THEN
        [ok |-> TRUE, sheet |-> Append(sheet, row), attempts |-> attempt, delays |-> delays,
         handles |-> [k \in 1..attempt |-> ws]]
    ELSE
        WriteAttempts(IF Lands(plan[attempt]) THEN Append(sheet, row) ELSE sheet,
                      ws, row, attempt + 1, plan, Append(delays, BackoffTenths * attempt))

NoAppend == [called |-> FALSE, raised |-> FALSE, ok |-> FALSE, attempts |-> 0,
             delays |-> << >>, handles |-> << >>]

\* append_feedback_row(user, data): g is the outcome of the header lookup,
\* plan the outcomes of the write attempts
AppendFeedbackRow(sheet, u, data, now, g, plan) ==
    Bind(GetFeedbackWsAndMap(sheet, g), LAMBDA ws :
        IF ws.raised THEN
            [called |-> TRUE, raised |-> TRUE, ok |-> FALSE, attempts |-> 0,
             delays |-> << >>, handles |-> << >>, sheet |-> ws.sheet]
        ELSE
            Bind(BuildRow(ws.name_to_col, u, data, now), LAMBDA row :
            Bind(WriteAttempts(ws.sheet, ws.ws, row, 1, plan, << >>), LAMBDA w :
                [called |-> TRUE, raised |-> FALSE, ok |-> w.ok, attempts |-> w.attempts,
                 delays |-> w.delays, handles |-> w.handles, sheet |-> w.sheet])))

\* what the handler keeps of an append_feedback_row call
CallOf(a) == [called |-> a.called, raised |-> a.raised, ok |-> a.ok,
              attempts |-> a.attempts, delays |-> a.delays, handles |-> a.handles]

----------------------------------------------------------------------------
\* Amendment of a stored row (contacts, comment)

Max(S) == CHOOSE x \in S : \A y \in S : y <= x

\* ws.findall(query): the cells whose value is the query, as <<row, col>>
FindAll(sheet, query) ==
    {rc \in UNION {{<<r, c>> : c \in 1..Len(sheet[r])} : r \in 1..Len(sheet)} :
        sheet[rc[1]][rc[2]] = query}

\* _find_last_row_for_user with min in place of max: the first of the
\* user's rows, not the last
FindFirstRowForUser(sheet, uid, g, f) ==
    LET ws == GetFeedbackWsAndMap(sheet, g)
        cells == IF f = "ok" THEN FindAll(ws.sheet, Str(uid)) ELSE {}
    IN  IF ws.raised THEN [raised |-> TRUE, sheet |-> ws.sheet, row |-> 0]
        ELSE IF cells = {} THEN [raised |-> FALSE, sheet |-> ws.sheet, row |-> 0]
        ELSE [raised |-> FALSE, sheet |-> ws.sheet,
              row |-> CHOOSE r \in {rc[1] : rc \in cells} :
                        \A q \in {rc[1] : rc \in cells} : r <= q]

\* _find_last_row_for_user: g the outcome of the header lookup, f of findall;
\* row 0 stands for None
FindLastRowForUser(sheet, uid, g, f) ==
    Bind(GetFeedbackWsAndMap(sheet, g), LAMBDA ws :
    Bind(IF f = "ok" THEN FindAll(ws.sheet, Str(uid)) ELSE {}, LAMBDA cells :
        LET user_col == IF "user_id" \in DOMAIN ws.name_to_col
                            THEN ws.name_to_col["user_id"] ELSE 2
            same_col == {rc \in cells : rc[2] = user_col}
            target == IF same_col # {} THEN same_col ELSE cells
        IN  IF ws.raised THEN [raised |-> TRUE, sheet |-> ws.sheet, row |-> 0]
            ELSE IF cells = {} THEN [raised |-> FALSE, sheet |-> ws.sheet, row |-> 0]
            ELSE [raised |-> FALSE, sheet |-> ws.sheet,
                  row |-> Max({rc[1] : rc \in target})]))

\* ws.update_cell(row, col, val) through _io_to_sheets, with outcome o
UpdateCell(sheet, row, col, val, o) ==
    [raised |-> o # "ok",
     sheet |-> IF Lands(o) THEN [sheet EXCEPT ![row][col] = val] ELSE sheet]

RECURSIVE UpdateCells(_, _, _, _, _, _, _, _)
\* for key in keys: col = name_to_col.get(key); if col: update_cell(row, col, val)
\* the update of keys[failAt] ends with outcome kind, the others "ok"
UpdateCells(sheet, row, name_to_col, keys, data, i, failAt, kind) ==
    IF i > Len(keys) THEN [raised |-> FALSE, sheet |-> sheet]
    ELSE IF keys[i] \notin DOMAIN name_to_col THEN
        UpdateCells(sheet, row, name_to_col, keys, data, i + 1, failAt, kind)
    ELSE
        Bind(UpdateCell(sheet, row, name_to_col[keys[i]], Get(data, keys[i]),
                        IF i = failAt THEN kind ELSE "ok"), LAMBDA w :
            IF w.raised THEN w
            ELSE UpdateCells(w.sheet, row, name_to_col, keys, data, i + 1, failAt, kind))

ContactKeys == <<"contact_name", "contact_phone", "contact_tg", "contact_email">>
CommentKeys == <<"free_comment">>

\* the dict of the given keys only, each data.get(key, "")
Payload(data, keys) == [k \in {keys[i] : i \in 1..Len(keys)} |-> Get(data, k)]

OkPlan == [g1 |-> "ok", g2 |-> "ok", f |-> "ok", failAt |-> 0, kind |-> "ok",
           ga |-> "ok", wp |-> <<"ok">>]

\* the store outcomes one amendment of keys by user uid can meet, along the
\* path the call takes (fields a path does not reach are left at "ok"; a
\* failed findall and an empty result are the same to the caller, so the
\* fault is enumerated where the user has a row)
UpsertPlans(sheet, uid, keys) ==
    LET found == FindLastRowForUser(sheet, uid, "ok", "ok").row # 0
        Fallback(f) ==
            {[OkPlan EXCEPT !.f = f, !.ga = "err"]}
            \cup {[OkPlan EXCEPT !.f = f, !.wp = p] : p \in AttemptPlans}
    IN  {[OkPlan EXCEPT !.g1 = g] : g \in GetPlans(sheet)}
        \cup {[OkPlan EXCEPT !.g2 = "err"]}
        \cup (IF found
                THEN {[OkPlan EXCEPT !.failAt = i, !.kind = k] :
                        i \in 1..Len(keys), k \in Faults}
                     \cup Fallback("err")
                ELSE Fallback("ok"))

\* the shared body of upsert_contacts_for_user and upsert_comment_for_user
UpsertFor(sheet, u, data, now, keys, plan) ==
    Bind(GetFeedbackWsAndMap(sheet, plan.g1), LAMBDA ws :
        IF ws.raised THEN
            [raised |-> TRUE, sheet |-> ws.sheet, row |-> 0, find |-> "none",
             append |-> NoAppend]
        ELSE
            Bind(FindLastRowForUser(ws.sheet, u, plan.g2, plan.f), LAMBDA fr :
                IF fr.raised THEN
                    [raised |-> TRUE, sheet |-> fr.sheet, row |-> 0, find |-> "none",
                     append |-> NoAppend]
                ELSE IF fr.row # 0 THEN
                    Bind(UpdateCells(fr.sheet, fr.row, ws.name_to_col, keys, data, 1,
                                     plan.failAt, plan.kind), LAMBDA up :
                        [raised |-> up.raised, sheet |-> up.sheet, row |-> fr.row,
                         find |-> plan.f, append |-> NoAppend])
                ELSE
                    Bind(AppendFeedbackRow(fr.sheet, u, Payload(data, keys), now,
                                           plan.ga, plan.wp), LAMBDA ap :
                        [raised |-> ap.raised, sheet |-> ap.sheet, row |-> 0,
                         find |-> plan.f, append |-> CallOf(ap)])))

\* upsert_contacts_for_user
UpsertContactsForUser(sheet, u, data, now, plan) ==
    UpsertFor(sheet, u, data, now, ContactKeys, plan)

\* upsert_comment_for_user
UpsertCommentForUser(sheet, u, data, now, plan) ==
    UpsertFor(sheet, u, data, now, CommentKeys, plan)

----------------------------------------------------------------------------
\* Language and texts

\* get_lang(user_id): the cache, else the configured default
get_lang(cache, u) ==
    IF u \in DOMAIN cache THEN cache[u]
    ELSE IF DEFAULT_LOCALE = "uz" THEN "uz" ELSE "ru"

\* t(user_id, key)
t(cache, u, key) == TXT(get_lang(cache, u), key)

\* a set_user_lang over one locale for the whole process: the cache entry
\* of every user is written
set_user_lang_global(cache, u, lang) ==
    [x \in Users |-> IF lang = "uz" THEN "uz" ELSE "ru"]

\* the cache write of set_user_lang
set_user_lang(cache, u, lang) == (u :> (IF lang = "uz" THEN "uz" ELSE "ru")) @@ cache

\* the "users" worksheet of set_user_lang, as _get_or_create_ws creates it
USERS_HEADERS == <<"user_id", "lang", "updated_at">>
NewUsers == <<USERS_HEADERS>>

\* ws.find(query): the first cell whose value is the query; its row, 0 for None
FindRow(sheet, query) ==
    IF FindAll(sheet, query) = {} THEN 0
    ELSE CHOOSE r \in {rc[1] : rc \in FindAll(sheet, query)} :
            \A q \in {rc[1] : rc \in FindAll(sheet, query)} : r <= q

\* the outcomes of the store calls of one set_user_lang: f of opening the
\* worksheet and ws.find, u1 and u2 of the two update_cell calls, a of
\* opening the worksheet again and append_row
OkLangPlan == [f |-> "ok", u1 |-> "ok", u2 |-> "ok", a |-> "ok"]

\* the outcomes one set_user_lang of user uid can meet, along the path the
\* call takes (fields a path does not reach are left at "ok")
LangPlans(sheet, uid) ==
    LET Appending(base) == {[base EXCEPT !.a = o] : o \in Outcomes}
    IN  Appending([OkLangPlan EXCEPT !.f = "err"])
        \cup (IF FindRow(sheet, Str(uid)) # 0
                 THEN {OkLangPlan}
                      \cup UNION {Appending([OkLangPlan EXCEPT !.u1 = k]) : k \in Faults}
                      \cup UNION {Appending([OkLangPlan EXCEPT !.u2 = k]) : k \in Faults}
                 ELSE Appending(OkLangPlan))

\* the store part of set_user_lang: find the user's row and update its lang
\* and updated_at cells; on no row, or on any exception of the first try,
\* append a row
PersistUserLang(sheet, u, lang, now, plan) ==
    LET row == IF plan.f = "ok" THEN FindRow(sheet, Str(u)) ELSE 0
        w1 == UpdateCell(sheet, row, 2, lang, plan.u1)
        w2 == UpdateCell(w1.sheet, row, 3, now, plan.u2)
    IN  IF row # 0 /\ (~w1.raised) /\ ~w2.raised THEN w2.sheet
        ELSE Bind(IF row = 0 THEN sheet ELSE IF w1.raised THEN w1.sheet ELSE w2.sheet,
                  LAMBDA s : IF Lands(plan.a) THEN Append(s, <<Str(u), lang, now>>) ELSE s)

----------------------------------------------------------------------------
\* Flow helpers

\* ask_next: the prompts it sends for next_state (none for a state it has no branch for)
ask_next(cache, u, next_state) ==
    CASE next_state = "Form:q1" -> <<t(cache, u, "q1")>>
      [] next_state = "Form:q2" -> <<t(cache, u, "q2")>>
      [] next_state = "Form:q3" -> <<t(cache, u, "q3")>>
      [] next_state = "Form:q4" -> <<t(cache, u, "q4")>>
      [] next_state = "Form:q5" -> <<t(cache, u, "q5")>>
      [] OTHER -> << >>

IndexIn(seq, x) == CHOOSE i \in 1..Len(seq) : seq[i] = x

\* a prev_state_of that restarts the form: the step before any later step
\* is company
prev_state_of_first(state) ==
    IF \E i \in 2..Len(SurveyOrder) : SurveyOrder[i] = state
        THEN SurveyOrder[1]
        ELSE NoState

\* a prev_state_of over a cyclic order: the step before company is q5
prev_state_of_cyclic(state) ==
    IF \E i \in 1..Len(SurveyOrder) : SurveyOrder[i] = state
        THEN (IF IndexIn(SurveyOrder, state) > 1
                 THEN SurveyOrder[IndexIn(SurveyOrder, state) - 1]
                 ELSE SurveyOrder[Len(SurveyOrder)])
        ELSE NoState

\* prev_state_of: NoState stands for None
prev_state_of(state) ==
    IF \E i \in 1..Len(SurveyOrder) : SurveyOrder[i] = state
        THEN (IF IndexIn(SurveyOrder, state) > 1
                 THEN SurveyOrder[IndexIn(SurveyOrder, state) - 1]
                 ELSE NoState)
        ELSE NoState

\* a next_map with an entry for q5, leading on to the contact capture
next_map_through(state) ==
    CASE state = "Form:company" -> "Form:q1"
      [] state = "Form:q1" -> "Form:q2"
      [] state = "Form:q2" -> "Form:q3"
      [] state = "Form:q3" -> "Form:q4"
      [] state = "Form:q4" -> "Form:q5"
      [] state = "Form:q5" -> "Form:contact_name"
      [] OTHER -> NoState

\* next_map.get(cur_state) of the skip branch
next_map(state) ==
    CASE state = "Form:company" -> "Form:q1"
      [] state = "Form:q1" -> "Form:q2"
      [] state = "Form:q2" -> "Form:q3"
      [] state = "Form:q3" -> "Form:q4"
      [] state = "Form:q4" -> "Form:q5"
      [] OTHER -> NoState

NoneVal == "<None>"

RECURSIVE JoinColon(_)
JoinColon(segs) ==
    IF Len(segs) = 1 THEN segs[1] ELSE segs[1] \o ":" \o JoinColon(Tail(segs))

\* parse_answer(data): data is given as its segments between colons
parse_answer(d) ==
    IF Len(d) = 1 THEN [key |-> d[1], val |-> NoneVal]
    ELSE IF Len(d) >= 3 THEN [key |-> d[2], val |-> JoinColon(SubSeq(d, 3, Len(d)))]
    ELSE [key |-> d[1], val |-> d[2]]

\* mapping.get(val, val) of the q1 branch
q1_mapping(cache, u, val) ==
    CASE val = "opt1" -> TXT(get_lang(cache, u), "q1_opt1")
      [] val = "opt2" -> TXT(get_lang(cache, u), "q1_opt2")
      [] val = "opt3" -> TXT(get_lang(cache, u), "q1_opt3")
      [] OTHER -> val

----------------------------------------------------------------------------
\* Inputs

\* callback data matched by F.data.startswith(("ans:", "nav:", "post:"))
CallbackInputs ==
    {<<"ans", "q1", "opt2">>, <<"ans", "q1", "opt9">>,
     <<"ans", "q2", "8">>, <<"ans", "q2", "11">>,
     <<"ans", "q3", "x">>, <<"ans", "q5", "9">>,
     <<"nav", "back">>, <<"nav", "skip">>,
     <<"post", "contact">>, <<"post", "comment">>}

\* the buttons on the keyboard sent with the prompt of a step (kb_q1,
\* kb_scale, nav_row)
PromptButtons(state) ==
    CASE state = "Form:q1" ->
            {<<"ans", "q1", "opt2">>, <<"nav", "back">>, <<"nav", "skip">>}
      [] state = "Form:q2" ->
            {<<"ans", "q2", "8">>, <<"nav", "back">>, <<"nav", "skip">>}
      [] state = "Form:q5" ->
            {<<"ans", "q5", "9">>, <<"nav", "back">>, <<"nav", "skip">>}
      [] OTHER -> {}

\* kb_after_survey
AfterSurveyButtons == {<<"post", "contact">>, <<"post", "comment">>}

\* callback data matched by F.data.startswith("start_form")
StartInputs == {<<"start_form", "ru">>, <<"start_form", "uz">>, <<"start_form">>}

\* message texts (not commands) a user sends in a given state
TextInputs(state) ==
    CASE state = "Form:contact_phone" -> {"+99", "@bob", " acme "}
      [] state = "Form:contact_email" -> {" - ", "a@b.c"}
      [] state = "Form:q5" -> {" acme ", "9"}
      [] OTHER -> {" acme "}

AdminSet == {ADMINS[i] : i \in 1..Len(ADMINS)}

\* a loop over ADMINS without the try around each send: the first send that
\* raises ends the loop
RECURSIVE NotifiedUntilFailureFrom(_, _, _)
NotifiedUntilFailureFrom(kind, failing, i) ==
    IF i > Len(ADMINS) \/ ADMINS[i] \in failing THEN << >>
    ELSE <<[to |-> ADMINS[i], kind |-> kind]>>
            \o NotifiedUntilFailureFrom(kind, failing, i + 1)

NotifiedUntilFailure(kind, failing) == NotifiedUntilFailureFrom(kind, failing, 1)

\* for admin_id in ADMINS: try send except pass -- failing is the set of
\* observers whose send raises
Notified(kind, failing) ==
    LET keep(a) == a \notin failing
    IN  [i \in 1..Len(SelectSeq(ADMINS, keep)) |->
            [to |-> SelectSeq(ADMINS, keep)[i], kind |-> kind]]

----------------------------------------------------------------------------
\* Initial state

\* a header that kept the canonical names, reordered and extended
AltHeaders ==
    <<"user_id", "timestamp", "username", "full_name", "company",
      "q1_time_to_setup", "q2_statuses_score", "q3_what_inconvenient",
      "q4_missing_features", "q5_nps_recommend",
      "contact_name", "contact_phone", "contact_tg", "contact_email",
      "free_comment", "raw_json", "manager_note">>

PriorSurvey(company) ==
    [k \in {"company", "q1", "q2", "q3", "q4", "q5"} |->
        CASE k = "company" -> company
          [] k = "q1" -> "15-30 minut"
          [] k = "q2" -> "8"
          [] k = "q5" -> "9"
          [] OTHER -> "none"]

PriorRow(header, u, company, ts) ==
    BuildRow(NameToCol(header), u, PriorSurvey(company), ts)

\* what the worksheet may hold when the process starts: nothing; the
\* canonical header and rows of earlier surveys; a header that was edited
\* and a row of another user whose company reads like a user id
NewSheet == << >>

UsedSheet ==
    <<FEEDBACK_HEADERS, PriorRow(FEEDBACK_HEADERS, 101, "acme", "old1"),
      PriorRow(FEEDBACK_HEADERS, 101, "acme", "old2"),
      PriorRow(FEEDBACK_HEADERS, 102, "bolt", "old3")>>

EditedSheet == <<AltHeaders, PriorRow(AltHeaders, 102, "101", "old1")>>

InitSheets == {NewSheet, UsedSheet, EditedSheet}

NoEvent == [op |-> "init", user |-> 0, input |-> << >>, state0 |-> NoState,
            msgs |-> << >>,
            raised |-> FALSE, append |-> NoAppend, row |-> 0, find |-> "none",
            notified |-> << >>, failing |-> {}, afterSkip |-> FALSE]

\* the process has started (MemoryStorage and _lang_cache are empty) over
\* one of the given worksheets
Started(sheets) ==
    /\ fsmState = [u \in Users |-> NoState]
    /\ fsmData = [u \in Users |-> EmptyData]
    /\ langCache = << >>
    /\ feedback \in sheets
    /\ ev = NoEvent
    /\ nEvents = 0
    /\ users = NewUsers
    /\ reached = [u \in Users |-> {}]

Init == Started({NewSheet})

----------------------------------------------------------------------------
\* Handlers.  Each computes the effect of the whole handler; Apply commits it.

\* the effect of a handler that does nothing
Eff0(u) == [state |-> fsmState[u], data |-> fsmData[u], lang |-> langCache,
            users |-> users,
            sheet |-> feedback, msgs |-> << >>, raised |-> FALSE,
            append |-> NoAppend, row |-> 0, find |-> "none", notify |-> "none"]

\* the sets of observers whose send can fail in a handler with effect e
\* (none is tried when the handler notifies nobody)
ObserverFaults(e) == IF e.notify = "none" THEN {{}} ELSE SUBSET AdminSet

\* state.clear()
Cleared(e) == [e EXCEPT !.state = NoState, !.data = EmptyData]

Apply(u, op, input, e, failing) ==
    /\ Len(e.sheet) <= MaxRows
    /\ fsmState' = [fsmState EXCEPT ![u] = e.state]
    /\ fsmData' = [fsmData EXCEPT ![u] = e.data]
    /\ langCache' = e.lang
    /\ feedback' = e.sheet
    /\ users' = e.users
    /\ ev' = [op |-> op, user |-> u, input |-> input, state0 |-> fsmState[u],
              msgs |-> e.msgs,
              raised |-> e.raised, append |-> e.append, row |-> e.row,
              find |-> e.find,
              notified |-> IF e.notify = "none" THEN << >>
                           ELSE Notified(e.notify, failing),
              failing |-> failing,
              afterSkip |-> (ev.op = "cb_answers" /\ ev.input = <<"nav", "skip">>)]
    /\ nEvents' = nEvents + 1
    /\ reached' = [reached EXCEPT ![u] =
                       IF e.state = NoState THEN {}
                       ELSE IF op = "cb_start" THEN {e.state}
                       ELSE @ \cup {e.state}]

\* cmd_start
CmdStart(u) ==
    Apply(u, "cmd_start", <<"/start">>,
          [Cleared(Eff0(u)) EXCEPT !.msgs = <<t(langCache, u, "choose_lang")>>], {})

\* cmd_lang
CmdLang(u) ==
    Apply(u, "cmd_lang", <<"/lang">>,
          [Cleared(Eff0(u)) EXCEPT !.msgs = <<t(langCache, u, "choose_lang")>>], {})

\* cmd_cancel
CmdCancel(u) ==
    Apply(u, "cmd_cancel", <<"/cancel">>,
          [Cleared(Eff0(u)) EXCEPT !.msgs = <<t(langCache, u, "done")>>], {})

\* cb_lang: "ru" if call.data.endswith("ru") else "uz"
cb_lang(u, d, plan) ==
    LET chosen == IF d = <<"lang_ru">> THEN "ru" ELSE "uz"
        cache == set_user_lang(langCache, u, chosen)
    IN  [Cleared(Eff0(u)) EXCEPT
            !.lang = cache,
            !.users = PersistUserLang(users, u, chosen, Now, plan),
            !.msgs = <<t(cache, u, "hello") \o "|" \o t(cache, u, "change_lang_hint")>>]

\* cb_lang, with the store outcomes of its set_user_lang drawn from plans
CbLangOn(u, plans) ==
    \E d \in {<<"lang_ru">>, <<"lang_uz">>}, plan \in plans :
        Apply(u, "cb_lang", d, cb_lang(u, d, plan), {})

CbLang(u) == CbLangOn(u, {OkLangPlan})

\* a cb_start without state.clear(): the stored answers are kept
cb_start_keeping(u, d, plan) ==
    [Eff0(u) EXCEPT
        !.state = "Form:company",
        !.msgs = <<t(langCache, u, "form_started"), t(langCache, u, "ask_company")>>]

\* cb_start: the set_user_lang task it creates writes the cache when the
\* handler first suspends, which is inside the first send, after its text
\* was looked up
cb_start(u, d, plan) ==
    LET cache == IF Len(d) = 2 /\ d[2] \in {"ru", "uz"}
                    THEN set_user_lang(langCache, u, d[2])
                    ELSE langCache
    IN  [Eff0(u) EXCEPT
            !.state = "Form:company", !.data = EmptyData, !.lang = cache,
            !.users = IF Len(d) = 2 /\ d[2] \in {"ru", "uz"}
                         THEN PersistUserLang(users, u, d[2], Now, plan)
                         ELSE users,
            !.msgs = <<t(langCache, u, "form_started"), t(cache, u, "ask_company")>>]

\* cb_start, with the store outcomes of its set_user_lang task drawn from
\* plans (one plan when the data names no locale and no task is created)
CbStartOn(u, plans) ==
    \E d \in StartInputs :
        \E plan \in (IF Len(d) = 2 THEN plans ELSE {OkLangPlan}) :
            Apply(u, "cb_start", d, cb_start(u, d, plan), {})

CbStart(u) == CbStartOn(u, {OkLangPlan})

\* the free-text handlers of company, q1..q4: store the stripped text under
\* key, move to next_state, ask it
text_step(u, key, next_state, text) ==
    [Eff0(u) EXCEPT
        !.data = UpdateData(fsmData[u], key :> Strip(text)),
        !.state = next_state,
        !.msgs = ask_next(langCache, u, next_state)]

\* ask_company
AskCompany(u) ==
    /\ fsmState[u] = "Form:company"
    /\ \E x \in TextInputs(fsmState[u]) :
          Apply(u, "ask_company", <<x>>, text_step(u, "company", "Form:q1", x), {})

\* q1_text
Q1Text(u) ==
    /\ fsmState[u] = "Form:q1"
    /\ \E x \in TextInputs(fsmState[u]) :
          Apply(u, "q1_text", <<x>>, text_step(u, "q1", "Form:q2", x), {})

\* q2_text
Q2Text(u) ==
    /\ fsmState[u] = "Form:q2"
    /\ \E x \in TextInputs(fsmState[u]) :
          Apply(u, "q2_text", <<x>>, text_step(u, "q2", "Form:q3", x), {})

\* q3_text
Q3Text(u) ==
    /\ fsmState[u] = "Form:q3"
    /\ \E x \in TextInputs(fsmState[u]) :
          Apply(u, "q3_text", <<x>>, text_step(u, "q3", "Form:q4", x), {})

\* q4_text
Q4Text(u) ==
    /\ fsmState[u] = "Form:q4"
    /\ \E x \in TextInputs(fsmState[u]) :
          Apply(u, "q4_text", <<x>>, text_step(u, "q4", "Form:q5", x), {})

\* the q5 branch of cb_answers: update_data, append_feedback_row (not
\* guarded by try), state.clear(), thanks or err, observers on success
cb_answers_q5(u, val, g, plan) ==
    Bind(UpdateData(fsmData[u], "q5" :> val), LAMBDA data :
    Bind(AppendFeedbackRow(feedback, u, data, Now, g, plan), LAMBDA a :
    Bind([Eff0(u) EXCEPT !.data = data, !.sheet = a.sheet, !.append = CallOf(a)], LAMBDA e :
        IF a.raised THEN [e EXCEPT !.raised = TRUE]
        ELSE IF a.ok THEN
            [Cleared(e) EXCEPT
                !.msgs = <<t(langCache, u, "thanks"), t(langCache, u, "after_thanks")>>,
                !.notify = "feedback"]
        ELSE [Cleared(e) EXCEPT !.msgs = <<t(langCache, u, "err")>>])))

\* cb_answers, every branch but q5 (no store call)
cb_answers_local(u, d) ==
    LET pa == parse_answer(d)
        cur_state == fsmState[u]
        prev == prev_state_of(cur_state)
        nxt == next_map(cur_state)
    IN  IF pa.key = "post" THEN
            (IF pa.val = "contact" THEN
                [Eff0(u) EXCEPT !.state = "Form:contact_name",
                                !.msgs = <<t(langCache, u, "ask_contact_name")>>]
             ELSE IF pa.val = "comment" THEN
                [Eff0(u) EXCEPT !.state = "Form:free_comment",
                                !.msgs = <<t(langCache, u, "ask_free_comment")>>]
             ELSE Eff0(u))
        ELSE IF pa.key = "nav" THEN
            (IF pa.val = "back" THEN
                (IF cur_state = NoState \/ prev = NoState THEN Eff0(u)
                 ELSE [Eff0(u) EXCEPT !.state = prev,
                                      !.msgs = ask_next(langCache, u, prev)])
             ELSE IF pa.val = "skip" THEN
                (IF nxt = NoState THEN Eff0(u)
                 ELSE [Eff0(u) EXCEPT !.state = nxt,
                                      !.msgs = ask_next(langCache, u, nxt)])
             ELSE Eff0(u))
        ELSE IF pa.key = "q1" THEN
            [Eff0(u) EXCEPT
                !.data = UpdateData(fsmData[u], "q1" :> q1_mapping(langCache, u, pa.val)),
                !.state = "Form:q2",
                !.msgs = ask_next(langCache, u, "Form:q2")]
        ELSE IF pa.key = "q2" THEN
            [Eff0(u) EXCEPT
                !.data = UpdateData(fsmData[u], "q2" :> pa.val),
                !.state = "Form:q3",
                !.msgs = ask_next(langCache, u, "Form:q3")]
        ELSE Eff0(u)

\* cb_answers, for the callback data of a set of buttons
CbAnswersOn(u, buttons) ==
    \E d \in buttons :
        IF parse_answer(d).key = "q5" /\ d[1] # "post" /\ d[1] # "nav"
        THEN \E p \in AppendPlans(feedback) :
                LET e == cb_answers_q5(u, parse_answer(d).val, p.g, p.wp)
                IN  \E failing \in ObserverFaults(e) :
                        Apply(u, "cb_answers", d, e, failing)
        ELSE Apply(u, "cb_answers", d, cb_answers_local(u, d), {})

CbAnswers(u) == CbAnswersOn(u, CallbackInputs)

\* q5_text: append_feedback_row inside try, state.clear(), thanks or err,
\* observers in both cases
q5_text(u, text, g, plan) ==
    Bind(UpdateData(fsmData[u], "q5" :> Strip(text)), LAMBDA data :
    Bind(AppendFeedbackRow(feedback, u, data, Now, g, plan), LAMBDA a :
    Bind([Eff0(u) EXCEPT !.sheet = a.sheet, !.append = CallOf(a)], LAMBDA e :
        IF (~a.raised) /\ a.ok THEN
            [Cleared(e) EXCEPT
                !.msgs = <<t(langCache, u, "thanks"), t(langCache, u, "after_thanks")>>,
                !.notify = "feedback"]
        ELSE [Cleared(e) EXCEPT !.msgs = <<t(langCache, u, "err")>>, !.notify = "fail"])))

Q5Text(u) ==
    /\ fsmState[u] = "Form:q5"
    /\ \E x \in TextInputs(fsmState[u]), p \in AppendPlans(feedback) :
          LET e == q5_text(u, x, p.g, p.wp)
          IN  \E failing \in ObserverFaults(e) : Apply(u, "q5_text", <<x>>, e, failing)

\* post_contact_name
PostContactName(u) ==
    /\ fsmState[u] = "Form:contact_name"
    /\ \E x \in TextInputs(fsmState[u]) :
          Apply(u, "post_contact_name", <<x>>,
                [Eff0(u) EXCEPT
                    !.data = UpdateData(fsmData[u], "contact_name" :> Strip(x)),
                    !.state = "Form:contact_phone",
                    !.msgs = <<t(langCache, u, "ask_contact_phone")>>], {})

\* post_contact_phone
post_contact_phone(u, text) ==
    LET txt == Strip(text)
        phone == IF StartsWithPlus(txt) \/ IsDigitsModuloSpaces(txt) THEN txt ELSE ""
        tg == IF StartsWithAt(txt) THEN txt ELSE ""
    IN  [Eff0(u) EXCEPT
            !.data = UpdateData(fsmData[u],
                                ("contact_phone" :> phone) @@ ("contact_tg" :> tg)),
            !.state = "Form:contact_email",
            !.msgs = <<t(langCache, u, "ask_contact_email")>>]

PostContactPhone(u) ==
    /\ fsmState[u] = "Form:contact_phone"
    /\ \E x \in TextInputs(fsmState[u]) :
          Apply(u, "post_contact_phone", <<x>>, post_contact_phone(u, x), {})

\* post_contact_email: upsert_contacts_for_user is not guarded by try
post_contact_email(u, text, plan) ==
    Bind(UpdateData(fsmData[u],
                    "contact_email" :> (IF Strip(text) = "-" THEN "" ELSE Strip(text))),
         LAMBDA data :
    Bind(UpsertContactsForUser(feedback, u, data, Now, plan), LAMBDA r :
    Bind([Eff0(u) EXCEPT !.data = data, !.sheet = r.sheet, !.append = r.append,
                         !.row = r.row, !.find = r.find], LAMBDA e :
        IF r.raised THEN [e EXCEPT !.raised = TRUE]
        ELSE [Cleared(e) EXCEPT !.msgs = <<t(langCache, u, "contacts_saved")>>,
                                !.notify = "contacts"])))

PostContactEmail(u) ==
    /\ fsmState[u] = "Form:contact_email"
    /\ \E x \in TextInputs(fsmState[u]), plan \in UpsertPlans(feedback, u, ContactKeys) :
          LET e == post_contact_email(u, x, plan)
          IN  \E failing \in ObserverFaults(e) :
                  Apply(u, "post_contact_email", <<x>>, e, failing)

\* post_comment_text: upsert_comment_for_user is not guarded by try
post_comment_text(u, text, plan) ==
    Bind(UpdateData(fsmData[u], "free_comment" :> Strip(text)), LAMBDA data :
    Bind(UpsertCommentForUser(feedback, u, data, Now, plan), LAMBDA r :
    Bind([Eff0(u) EXCEPT !.data = data, !.sheet = r.sheet, !.append = r.append,
                         !.row = r.row, !.find = r.find], LAMBDA e :
        IF r.raised THEN [e EXCEPT !.raised = TRUE]
        ELSE [Cleared(e) EXCEPT !.msgs = <<t(langCache, u, "comment_saved")>>,
                                !.notify = "comment"])))

PostCommentText(u) ==
    /\ fsmState[u] = "Form:free_comment"
    /\ \E x \in TextInputs(fsmState[u]), plan \in UpsertPlans(feedback, u, CommentKeys) :
          LET e == post_comment_text(u, x, plan)
          IN  \E failing \in ObserverFaults(e) :
                  Apply(u, "post_comment_text", <<x>>, e, failing)

DiagData ==
    [k \in {"company", "q1", "q2", "q3", "q4", "q5"} |->
        IF k \in {"q2", "q5"} THEN "1" ELSE "diag"]

\* cmd_diag: registered after the state handlers, so it is reached only
\* when no state is set
cmd_diag(u, g, plan) ==
    Bind(AppendFeedbackRow(feedback, u, DiagData, Now, g, plan), LAMBDA a :
    Bind([Eff0(u) EXCEPT !.sheet = a.sheet, !.append = CallOf(a)], LAMBDA e :
        IF a.raised THEN [e EXCEPT !.raised = TRUE]
        ELSE [e EXCEPT !.msgs = <<IF a.ok THEN t(langCache, u, "diag_ok")
                                          ELSE t(langCache, u, "diag_fail")>>]))

CmdDiag(u) ==
    /\ fsmState[u] = NoState
    /\ \E p \in AppendPlans(feedback) :
          Apply(u, "cmd_diag", <<"/diag">>, cmd_diag(u, p.g, p.wp), {})

\* fallback_inbox: a message outside any state is echoed and forwarded
FallbackInbox(u) ==
    /\ fsmState[u] = NoState
    /\ \E x \in TextInputs(fsmState[u]), failing \in SUBSET AdminSet :
          Apply(u, "fallback_inbox", <<x>>,
                [Eff0(u) EXCEPT !.msgs = <<t(langCache, u, "inbox_echo")>>,
                                !.notify = "inbox"], failing)

\* The process is stopped and started again: MemoryStorage and _lang_cache
\* are module state and start empty, the worksheets are kept
Restart ==
    /\ fsmState' = [u \in Users |-> NoState]
    /\ fsmData' = [u \in Users |-> EmptyData]
    /\ langCache' = << >>
    /\ reached' = [u \in Users |-> {}]
    /\ ev' = [NoEvent EXCEPT !.op = "restart"]
    /\ nEvents' = nEvents + 1
    /\ UNCHANGED <<feedback, users>>

----------------------------------------------------------------------------
\* The dispatcher: one update of one user at a time, from a process started
\* over a new worksheet

Next ==
    \E u \in Actors :
        \/ nEvents < MaxEvents /\ CmdStart(u)
        \/ nEvents < MaxEvents /\ CmdLang(u)
        \/ nEvents < MaxEvents /\ CmdCancel(u)
        \/ nEvents < MaxEvents /\ CbLang(u)
        \/ nEvents < MaxEvents /\ CbStart(u)
        \/ nEvents < MaxEvents /\ AskCompany(u)
        \/ nEvents < MaxEvents /\ CbAnswers(u)
        \/ nEvents < MaxEvents /\ Q1Text(u)
        \/ nEvents < MaxEvents /\ Q2Text(u)
        \/ nEvents < MaxEvents /\ Q3Text(u)
        \/ nEvents < MaxEvents /\ Q4Text(u)
        \/ nEvents < MaxEvents /\ Q5Text(u)
        \/ nEvents < MaxEvents /\ PostContactName(u)
        \/ nEvents < MaxEvents /\ PostContactPhone(u)
        \/ nEvents < MaxEvents /\ PostContactEmail(u)
        \/ nEvents < MaxEvents /\ PostCommentText(u)
        \/ nEvents < MaxEvents /\ CmdDiag(u)
        \/ nEvents < MaxEvents /\ FallbackInbox(u)

Spec == Init /\ [][Next]_vars

\* A user who answers each prompt as it is shown: the start button, then
\* per step a text or a button of that step's keyboard; the worksheet is
\* new or in use
InitSurvey == Started({NewSheet, UsedSheet})

NextSurvey ==
    \E u \in Actors :
        \/ nEvents < MaxSurveyEvents /\ CbStart(u)
        \/ nEvents < MaxSurveyEvents /\ AskCompany(u)
        \/ nEvents < MaxSurveyEvents /\ CbAnswersOn(u, PromptButtons(fsmState[u]))
        \/ nEvents < MaxSurveyEvents /\ Q1Text(u)
        \/ nEvents < MaxSurveyEvents /\ Q2Text(u)
        \/ nEvents < MaxSurveyEvents /\ Q3Text(u)
        \/ nEvents < MaxSurveyEvents /\ Q4Text(u)
        \/ nEvents < MaxSurveyEvents /\ Q5Text(u)

SpecSurvey == InitSurvey /\ [][NextSurvey]_vars

\* A user who leaves contacts or a comment: the buttons sent after the
\* thanks and the capture steps, over every initial worksheet
InitAmend == Started(InitSheets)

NextAmend ==
    \E u \in Actors :
        \/ nEvents < MaxAmendEvents /\ CbAnswersOn(u, AfterSurveyButtons)
        \/ nEvents < MaxAmendEvents /\ PostContactName(u)
        \/ nEvents < MaxAmendEvents /\ PostContactPhone(u)
        \/ nEvents < MaxAmendEvents /\ PostContactEmail(u)
        \/ nEvents < MaxAmendEvents /\ PostCommentText(u)

SpecAmend == InitAmend /\ [][NextAmend]_vars

\* A user who walks the form without finishing it: the commands, the
\* language and start buttons, the texts of company and q1..q4, every
\* callback but the q5 answer, and the capture steps that call no store
FlowButtons == CallbackInputs \ {<<"ans", "q5", "9">>}

NextFlow ==
    \E u \in Actors :
        \/ nEvents < MaxFlowEvents /\ CmdStart(u)
        \/ nEvents < MaxFlowEvents /\ CmdLang(u)
        \/ nEvents < MaxFlowEvents /\ CmdCancel(u)
        \/ nEvents < MaxFlowEvents /\ CbLang(u)
        \/ nEvents < MaxFlowEvents /\ CbStart(u)
        \/ nEvents < MaxFlowEvents /\ AskCompany(u)
        \/ nEvents < MaxFlowEvents /\ CbAnswersOn(u, FlowButtons)
        \/ nEvents < MaxFlowEvents /\ Q1Text(u)
        \/ nEvents < MaxFlowEvents /\ Q2Text(u)
        \/ nEvents < MaxFlowEvents /\ Q3Text(u)
        \/ nEvents < MaxFlowEvents /\ Q4Text(u)
        \/ nEvents < MaxFlowEvents /\ PostContactName(u)
        \/ nEvents < MaxFlowEvents /\ PostContactPhone(u)

SpecFlow == Init /\ [][NextFlow]_vars

\* Two users walking the form at the same time: the updates of SpecFlow
\* from either user, in any order (a handler touches the FSM storage and
\* _lang_cache only between its awaits, so the order of whole handlers is
\* the order of their writes)
NextPair ==
    \E u \in Users :
        \/ nEvents < MaxPairEvents /\ CmdStart(u)
        \/ nEvents < MaxPairEvents /\ CmdLang(u)
        \/ nEvents < MaxPairEvents /\ CmdCancel(u)
        \/ nEvents < MaxPairEvents /\ CbLang(u)
        \/ nEvents < MaxPairEvents /\ CbStart(u)
        \/ nEvents < MaxPairEvents /\ AskCompany(u)
        \/ nEvents < MaxPairEvents /\ CbAnswersOn(u, FlowButtons)
        \/ nEvents < MaxPairEvents /\ Q1Text(u)
        \/ nEvents < MaxPairEvents /\ Q2Text(u)
        \/ nEvents < MaxPairEvents /\ Q3Text(u)
        \/ nEvents < MaxPairEvents /\ Q4Text(u)
        \/ nEvents < MaxPairEvents /\ PostContactName(u)
        \/ nEvents < MaxPairEvents /\ PostContactPhone(u)

SpecPair == Init /\ [][NextPair]_vars

\* A user who answers each prompt as it is shown and, outside a session,
\* presses a button of the keyboard sent after the thanks to leave contacts
\* or a comment: every handler that notifies the observers of a survey
NotifyButtons(state) ==
    IF state = NoState THEN AfterSurveyButtons ELSE PromptButtons(state)

NextNotify ==
    \E u \in Actors :
        \/ nEvents < MaxNotifyEvents /\ CbStart(u)
        \/ nEvents < MaxNotifyEvents /\ AskCompany(u)
        \/ nEvents < MaxNotifyEvents
              /\ CbAnswersOn(u, NotifyButtons(fsmState[u]))
        \/ nEvents < MaxNotifyEvents /\ Q1Text(u)
        \/ nEvents < MaxNotifyEvents /\ Q2Text(u)
        \/ nEvents < MaxNotifyEvents /\ Q3Text(u)
        \/ nEvents < MaxNotifyEvents /\ Q4Text(u)
        \/ nEvents < MaxNotifyEvents /\ Q5Text(u)
        \/ nEvents < MaxNotifyEvents /\ PostContactName(u)
        \/ nEvents < MaxNotifyEvents /\ PostContactPhone(u)
        \/ nEvents < MaxNotifyEvents /\ PostContactEmail(u)
        \/ nEvents < MaxNotifyEvents /\ PostCommentText(u)

SpecNotify == Init /\ [][NextNotify]_vars

\* A user who chooses a locale, by the language buttons or by the start
\* button, under every outcome of the calls to the "users" worksheet, and a
\* process that is restarted
NextLang ==
    \/ nEvents < MaxLangEvents /\ Restart
    \/ \E u \in Actors :
        \/ nEvents < MaxLangEvents /\ CmdStart(u)
        \/ nEvents < MaxLangEvents /\ CmdLang(u)
        \/ nEvents < MaxLangEvents /\ CbLangOn(u, LangPlans(users, u))
        \/ nEvents < MaxLangEvents /\ CbStartOn(u, LangPlans(users, u))

SpecLang == Init /\ [][NextLang]_vars

----------------------------------------------------------------------------
\* Vocabulary of the properties

\* the step that follows / precedes a step of the chain (NoState past an end)
Successor(step) ==
    IF \E i \in 1..(Len(SurveyOrder) - 1) : SurveyOrder[i] = step
        THEN SurveyOrder[(CHOOSE i \in 1..Len(SurveyOrder) : SurveyOrder[i] = step) + 1]
        ELSE NoState

Predecessor(step) ==
    IF \E i \in 2..Len(SurveyOrder) : SurveyOrder[i] = step
        THEN SurveyOrder[(CHOOSE i \in 1..Len(SurveyOrder) : SurveyOrder[i] = step) - 1]
        ELSE NoState

IsStep(state) == \E i \in 1..Len(SurveyOrder) : SurveyOrder[i] = state

\* the answer key of a step, and the keys of the steps before it
KeyOf(step) ==
    CASE step = "Form:company" -> "company"
      [] step = "Form:q1" -> "q1"
      [] step = "Form:q2" -> "q2"
      [] step = "Form:q3" -> "q3"
      [] step = "Form:q4" -> "q4"
      [] step = "Form:q5" -> "q5"

KeysBefore(step) ==
    {KeyOf(SurveyOrder[i]) : i \in {j \in 1..Len(SurveyOrder) :
        \E k \in (j + 1)..Len(SurveyOrder) : SurveyOrder[k] = step}}

\* the event is an answer to a survey step: a text taken by a step's text
\* handler, or an "ans:" button
IsTextAnswer(e) ==
    e.op \in {"ask_company", "q1_text", "q2_text", "q3_text", "q4_text", "q5_text"}

IsButtonAnswer(e) == e.op = "cb_answers" /\ e.input[1] = "ans"

IsAnswer(e) == IsTextAnswer(e) \/ IsButtonAnswer(e)

\* the event is an answer given at step q5
IsFinalAnswer(e) ==
    /\ e.state0 = "Form:q5"
    /\ \/ e.op = "q5_text"
       \/ IsButtonAnswer(e) /\ e.input[2] = "q5"

\* the value an answer event carries
AnswerValue(e) == IF IsTextAnswer(e) THEN Strip(e.input[1]) ELSE e.input[3]

\* the column of a name in the header of a sheet (0: no such column)
ColumnOf(sheet, name) ==
    IF sheet # << >> /\ \E c \in 1..Len(sheet[1]) : sheet[1][c] = name
        THEN CHOOSE c \in 1..Len(sheet[1]) : sheet[1][c] = name
        ELSE 0

\* the cell of a row under the column of a name ("?" when there is none)
CellOf(sheet, r, name) ==
    IF ColumnOf(sheet, name) = 0 THEN "?" ELSE sheet[r][ColumnOf(sheet, name)]

\* the rows under the header
DataRows(sheet) == IF sheet = << >> THEN 0 ELSE Len(sheet) - 1

SurveyColumn(key) ==
    CASE key = "company" -> "company"
      [] key = "q1" -> "q1_time_to_setup"
      [] key = "q2" -> "q2_statuses_score"
      [] key = "q3" -> "q3_what_inconvenient"
      [] key = "q4" -> "q4_missing_features"
      [] key = "q5" -> "q5_nps_recommend"

SurveyKeys == {"company", "q1", "q2", "q3", "q4", "q5"}

----------------------------------------------------------------------------
\* C1: from a freshly begun session, six answers given in order walk the step
\* through company, q1, .., q5, one step per answer, and the sixth answer
\* clears the session.  Stated per answer: an answer given at step s while
\* the answers hold exactly the steps before s moves the session to the
\* successor of s with the answer of s added, and at q5 leaves no step and
\* no answers.
C1_SixAnswersWalkAndClear ==
    [][\A u \in Actors :
        (/\ ev'.user = u
         /\ IsAnswer(ev')
         /\ IsStep(fsmState[u])
         /\ DOMAIN fsmData[u] = KeysBefore(fsmState[u]))
        => IF fsmState[u] = "Form:q5"
              THEN fsmState'[u] = NoState /\ fsmData'[u] = EmptyData
              ELSE /\ fsmState'[u] = Successor(fsmState[u])
                   /\ DOMAIN fsmData'[u] = KeysBefore(fsmState'[u])]_vars

\* C2: an answer at q5 that finalize reports as saved has appended exactly
\* one row, whose company and q1..q5 cells are the accumulated answers with
\* the q5 just given; the session is cleared and the user gets the thanks and
\* then the follow-up prompt; a q1 chosen by button is kept as the option's
\* display string.
C2_FinalizeAppendsOneRow ==
    [][\A u \in Actors :
        /\ (ev'.user = u /\ IsFinalAnswer(ev') /\ ev'.append.ok)
           => /\ DataRows(feedback') = DataRows(feedback) + 1
              /\ \A k \in SurveyKeys :
                    CellOf(feedback', Len(feedback'), SurveyColumn(k))
                        = IF k = "q5" THEN AnswerValue(ev') ELSE Get(fsmData[u], k)
              /\ fsmState'[u] = NoState /\ fsmData'[u] = EmptyData
              /\ ev'.msgs = <<TXT(get_lang(langCache, u), "thanks"),
                              TXT(get_lang(langCache, u), "after_thanks")>>
        /\ (ev'.user = u /\ IsButtonAnswer(ev') /\ ev'.input = <<"ans", "q1", "opt2">>
                /\ fsmState[u] = "Form:q1")
           => Get(fsmData'[u], "q1") = TXT(get_lang(langCache, u), "q1_opt2")]_vars

\* C3: the step changes only along the chain: an event leaves it, moves it
\* to the successor or the predecessor, to the first step, or ends the
\* session; and a button answer naming another step than the current one
\* (or arriving without a session) neither moves the step nor writes to the
\* table.
C3_StepMovesAlongChain ==
    [][\A u \in Actors :
        /\ (IsStep(fsmState[u]) /\ IsStep(fsmState'[u]))
           => fsmState'[u] \in {fsmState[u], Successor(fsmState[u]),
                                Predecessor(fsmState[u]), "Form:company"}
        /\ (ev'.user = u /\ IsButtonAnswer(ev')
                /\ ("Form:" \o ev'.input[2]) # fsmState[u])
           => /\ fsmState'[u] = fsmState[u]
              /\ ~ev'.append.called
              /\ feedback' = feedback]_vars

\* C4: an append_feedback_row call whose three write attempts all fail
\* returns failure after exactly three attempts, with delays 0.7 s x attempt
\* (non-decreasing), and leaves no new row in the table.
C4_ExhaustedRetriesWriteNothing ==
    [][(ev'.append.called /\ ~ev'.append.raised /\ ev'.append.attempts = MaxAttempts
            /\ ~ev'.append.ok)
        => /\ ev'.append.delays
                = [i \in 1..MaxAttempts |-> BackoffTenths * i]
           /\ \A i \in 1..(MaxAttempts - 1) :
                ev'.append.delays[i] <= ev'.append.delays[i + 1]
           /\ DataRows(feedback') = DataRows(feedback)]_vars

\* C5: append_feedback_row never raises: whatever the store does, the call
\* returns a boolean and no exception reaches the handler that called it.
C5_AppendNeverRaises ==
    ev.append.called => (~ev.append.raised /\ ~ev.raised)

----------------------------------------------------------------------------
\* Vocabulary of the amendment properties

IsAmend(e) == e.op \in {"post_contact_email", "post_comment_text"}

\* the columns an amendment targets
AmendColumns(e) ==
    IF e.op = "post_contact_email"
        THEN {"contact_name", "contact_phone", "contact_tg", "contact_email"}
        ELSE {"free_comment"}

\* the value the user supplied for an amendment column: the text of this
\* message for the last field, the captured fields of the session otherwise
Supplied(data, e, name) ==
    IF name = "free_comment" THEN Strip(e.input[1])
    ELSE IF name = "contact_email"
        THEN (IF Strip(e.input[1]) = "-" THEN "" ELSE Strip(e.input[1]))
    ELSE Get(data, name)

\* the rows of a user: those whose user_id cell is the user's id
RowsOf(sheet, uid) ==
    {r \in 2..Len(sheet) : CellOf(sheet, r, "user_id") = Str(uid)}

HasRow(sheet, uid) == RowsOf(sheet, uid) # {}

LatestRow(sheet, uid) ==
    CHOOSE r \in RowsOf(sheet, uid) : \A q \in RowsOf(sheet, uid) : q <= r

\* from sheet old to sheet new no row was added and the cells that differ
\* are cells of the user's latest row under the given columns
OnlyAmends(old, new, uid, columns) ==
    /\ Len(new) = Len(old)
    /\ \A r \in 1..Len(old) :
          /\ Len(new[r]) = Len(old[r])
          /\ \A c \in 1..Len(old[r]) :
                new[r][c] # old[r][c]
                    => (r = LatestRow(old, uid) /\ old[1][c] \in columns)

\* the acknowledgement a capture handler sends when it has saved
SavedAck(cache, e) ==
    <<TXT(get_lang(cache, e.user),
          IF e.op = "post_contact_email" THEN "contacts_saved" ELSE "comment_saved")>>

\* the prompt of a survey step
PromptOf(cache, uid, step) ==
    <<TXT(get_lang(cache, uid),
          IF step = "Form:company" THEN "ask_company" ELSE KeyOf(step))>>

\* the button tokens a step offers
OptionsOf(key) ==
    CASE key = "q1" -> {"opt1", "opt2", "opt3"}
      [] key \in {"q2", "q5"} -> {"1", "2", "3", "4", "5", "6", "7", "8", "9", "10"}
      [] OTHER -> {}

----------------------------------------------------------------------------
C7_AmendWithoutRowAppendsValues ==
    [][\A u \in Actors :
        (/\ ev'.user = u /\ IsAmend(ev') /\ ~HasRow(feedback, u)
         /\ ~ev'.raised /\ ev'.find # "err"
         /\ (ev'.append.called => (ev'.append.ok /\ ev'.append.attempts = 1)))
        => /\ DataRows(feedback') = DataRows(feedback) + 1
           /\ CellOf(feedback', Len(feedback'), "user_id") = Str(u)
           /\ \A name \in AmendColumns(ev') :
                CellOf(feedback', Len(feedback'), name) = Supplied(fsmData[u], ev', name)
           /\ \A k \in SurveyKeys :
                CellOf(feedback', Len(feedback'), SurveyColumn(k)) = ""]_vars

\* C8: whenever a capture handler sends the saved acknowledgement, the table
\* holds a row of that user whose amendment columns hold the supplied values.
C8_SavedAckMeansStored ==
    [][\A u \in Actors :
        (ev'.user = u /\ IsAmend(ev') /\ ev'.msgs = SavedAck(langCache, ev'))
        => \E r \in RowsOf(feedback', u) :
              \A name \in AmendColumns(ev') :
                 CellOf(feedback', r, name) = Supplied(fsmData[u], ev', name)]_vars

\* C9: a button answer for the current step whose token is not among the
\* step's options (or whose step has no options) is rejected: step, answers
\* and table are unchanged and the prompt of the step is sent again.
C9_InvalidTokenRejected ==
    [][\A u \in Actors :
        (/\ ev'.user = u /\ IsButtonAnswer(ev')
         /\ fsmState[u] = "Form:" \o ev'.input[2]
         /\ ev'.input[3] \notin OptionsOf(ev'.input[2]))
        => /\ fsmState'[u] = fsmState[u]
           /\ fsmData'[u] = fsmData[u]
           /\ feedback' = feedback
           /\ ev'.msgs = PromptOf(langCache, u, fsmState[u])]_vars

\* C10: back at a step other than the first moves to the preceding step,
\* leaves the answers as they are and sends the prompt of that preceding
\* step, company included.
C10_BackReasksPrecedingStep ==
    [][\A u \in Actors :
        (/\ ev'.user = u /\ ev'.op = "cb_answers" /\ ev'.input = <<"nav", "back">>
         /\ IsStep(fsmState[u]) /\ fsmState[u] # "Form:company")
        => /\ fsmState'[u] = Predecessor(fsmState[u])
           /\ fsmData'[u] = fsmData[u]
           /\ ev'.msgs = PromptOf(langCache, u, Predecessor(fsmState[u]))]_vars


----------------------------------------------------------------------------
\* Navigation events

IsBack(e) == e.op = "cb_answers" /\ e.input = <<"nav", "back">>
IsSkip(e) == e.op = "cb_answers" /\ e.input = <<"nav", "skip">>

\* the event e persisted nothing: no store call of any kind was made
NoStoreCall(e) == (~e.append.called) /\ e.find = "none" /\ e.row = 0

\* C11: back pressed at the first step (company) or with no session is a
\* silent no-op: the step and the answers stay as they were, no message is
\* sent to anyone and nothing is written to the worksheet.
C11_BackAtStartIsNoOp ==
    [][\A u \in Users :
        (IsBack(ev') /\ ev'.user = u /\ fsmState[u] \in {NoState, "Form:company"})
        => /\ fsmState'[u] = fsmState[u]
           /\ fsmData'[u] = fsmData[u]
           /\ ev'.msgs = << >>
           /\ ev'.notified = << >>
           /\ ~ev'.raised
           /\ NoStoreCall(ev')
           /\ feedback' = feedback]_vars

\* back was pressed at company by a user who had already answered it
C11_Witness ==
    /\ IsBack(ev)
    /\ ev.state0 = "Form:company"
    /\ fsmState[ev.user] = "Form:company"
    /\ "company" \in DOMAIN fsmData[ev.user]
    /\ ev.msgs = << >>


\* C12: skip at a non-terminal step s (company, q1..q4) moves the step to
\* the successor of s and leaves the answers as they were, so no value is
\* written for s; skip at the terminal step q5 changes neither the step nor
\* the answers, sends nothing and does not finalize (no store call, no
\* observer notified).
C12_SkipAdvancesWithoutWriting ==
    [][\A u \in Users :
        (IsSkip(ev') /\ ev'.user = u /\ IsStep(fsmState[u]))
        => /\ fsmData'[u] = fsmData[u]
           /\ NoStoreCall(ev')
           /\ feedback' = feedback
           /\ ev'.notified = << >>
           /\ IF fsmState[u] = "Form:q5"
                 THEN fsmState'[u] = "Form:q5" /\ ev'.msgs = << >>
                 ELSE fsmState'[u] = Successor(fsmState[u])]_vars

\* q1 was skipped by a user who had answered company: the step is q2 and
\* there is no answer for q1
C12_Witness ==
    /\ IsSkip(ev)
    /\ ev.state0 = "Form:q1"
    /\ fsmState[ev.user] = "Form:q2"
    /\ "company" \in DOMAIN fsmData[ev.user]
    /\ "q1" \notin DOMAIN fsmData[ev.user]


\* the steps that have a successor
NonTerminalSteps == {SurveyOrder[i] : i \in 1..(Len(SurveyOrder) - 1)}

\* the last event of user u was a skip that moved the session off a step
\* (state0 of that event) onto its successor
SkippedFrom(u) ==
    IF IsSkip(ev) /\ ev.user = u /\ ev.state0 \in NonTerminalSteps
          /\ fsmState[u] = Successor(ev.state0)
       THEN ev.state0 ELSE NoState

\* C13 (as claimed): skip at a non-terminal step s immediately followed by
\* back returns the session to s, and answers holds no key for s.
C13_SkipThenBackLeavesNoAnswer ==
    [][\A u \in Users :
        (SkippedFrom(u) # NoState /\ IsBack(ev') /\ ev'.user = u)
        => /\ fsmState'[u] = SkippedFrom(u)
           /\ KeyOf(SkippedFrom(u)) \notin DOMAIN fsmData'[u]]_vars

\* C13 (amended): skip at a non-terminal step s moves the session to the
\* successor of s, back pressed immediately after returns it to s, and
\* neither event changes answers: the key of s is absent after the pair
\* exactly when it was absent before the skip.
C13_SkipThenBackRestoresStep ==
    [][\A u \in Users :
        /\ (IsSkip(ev') /\ ev'.user = u /\ fsmState[u] \in NonTerminalSteps)
           => /\ fsmState'[u] = Successor(fsmState[u])
              /\ fsmData'[u] = fsmData[u]
        /\ (SkippedFrom(u) # NoState /\ IsBack(ev') /\ ev'.user = u)
           => /\ fsmState'[u] = SkippedFrom(u)
              /\ fsmData'[u] = fsmData[u]]_vars

\* company was answered, then skipped on a second visit, and back pressed
\* right after the skip: the step is company again and its answer is kept
C13_Witness ==
    /\ IsBack(ev)
    /\ ev.afterSkip
    /\ ev.state0 = "Form:q1"
    /\ fsmState[ev.user] = "Form:company"
    /\ "company" \in DOMAIN fsmData[ev.user]


\* begin is the start button (cb_start); its messages are the form_started
\* notice followed by the prompt of the first step
IsBegin(e) == e.op = "cb_start"
FirstStepPrompt(e) == <<e.msgs[Len(e.msgs)]>>

IsReset(e) == e.op \in {"cmd_cancel", "cb_start", "cmd_start"}
CompletesSession(e) ==
    \/ e.op = "q5_text"
    \/ IsButtonAnswer(e) /\ e.input[2] = "q5"
    \/ IsAmend(e)

\* C15: a key once written to a session's answers is removed by no event
\* other than a reset (or the completion of the session): back and skip
\* neither erase nor overwrite an answer, and no other command or callback,
\* language selection and the post-survey buttons included, removes a key.
C15_AnswersKeptUntilReset ==
    [][\A u \in Users :
        (~IsReset(ev') /\ ~CompletesSession(ev'))
        => \A k \in DOMAIN fsmData[u] :
              /\ k \in DOMAIN fsmData'[u]
              /\ (IsBack(ev') \/ IsSkip(ev')) => fsmData'[u][k] = fsmData[u][k]]_vars


\* C16: in every reachable state each user's step is "no active session"
\* or a state of the form, and answers holds the key of a survey step only
\* if the session has been at that step since it was last begun.
C16_AnswersOnlyForReachedSteps ==
    \A u \in Users :
        /\ fsmState[u] = NoState \/ fsmState[u] \in Form
        /\ \A i \in 1..Len(SurveyOrder) :
              KeyOf(SurveyOrder[i]) \in DOMAIN fsmData[u]
                  => SurveyOrder[i] \in reached[u]


\* C17: the lookup of a user's latest row considers only the cells of the
\* user_id column: when findall succeeds it returns the highest row whose
\* user_id cell equals the user's id, and None (0) when no row has that
\* value in the user_id column, even if the value occurs in other columns.
C17_LookupUsesIdentityColumnOnly ==
    [][\A u \in Actors :
        (ev'.user = u /\ IsAmend(ev') /\ ev'.find = "ok")
        => ev'.row = IF HasRow(feedback, u) THEN LatestRow(feedback, u) ELSE 0]_vars


\* the event e is a q5 answer (text or button, at whatever step)
IsFinalize(e) == e.op = "q5_text" \/ (IsButtonAnswer(e) /\ e.input[2] = "q5")

\* the handler of event e reached its loop over ADMINS
NotifiesObservers(e) ==
    \/ e.op = "q5_text"
    \/ IsButtonAnswer(e) /\ e.input[2] = "q5" /\ (~e.raised) /\ e.append.ok
    \/ IsAmend(e) /\ ~e.raised
    \/ e.op = "fallback_inbox"

\* the observers that received a notification of event e
Receivers(e) == {e.notified[i].to : i \in 1..Len(e.notified)}

\* what the handler of e reports to its user when no observer send fails:
\* the messages, by the outcome of the store call alone
ReportedTo(cache, e) ==
    IF IsFinalize(e)
       THEN (IF e.append.ok
                THEN <<TXT(get_lang(cache, e.user), "thanks"),
                       TXT(get_lang(cache, e.user), "after_thanks")>>
                ELSE <<TXT(get_lang(cache, e.user), "err")>>)
       ELSE SavedAck(cache, e)

\* C18: the fan-out is independent per observer: whichever observers' sends
\* fail, every other observer receives the notification (once), and what
\* was reported to the originating user -- the session is cleared, the
\* thanks or the error or the acknowledgement was sent -- is what is
\* reported when every send succeeds.
C18_FanOutIsIndependent ==
    [][\A u \in Actors :
        (ev'.user = u /\ NotifiesObservers(ev') /\ (IsFinalize(ev') \/ IsAmend(ev')))
        => /\ Receivers(ev') = AdminSet \ ev'.failing
           /\ Len(ev'.notified) = Cardinality(AdminSet \ ev'.failing)
           /\ fsmState'[u] = NoState
           /\ fsmData'[u] = EmptyData
           /\ ev'.msgs = ReportedTo(langCache', ev')]_vars

\* a q5 text was stored, the send to the first observer failed, the second
\* observer was notified and the user was thanked
C18_Witness ==
    /\ ev.op = "q5_text"
    /\ ev.append.ok
    /\ ev.failing = {ADMINS[1]}
    /\ Receivers(ev) = {ADMINS[2]}
    /\ ev.msgs = ReportedTo(langCache, ev)
    /\ fsmState[ev.user] = NoState


\* the persistence write of the finalize event e failed: the call raised,
\* or returned False
WriteFailed(e) == e.append.called /\ (e.append.raised \/ ~e.append.ok)

\* C19: whenever the persistence write at finalize fails -- by a text or by
\* a button answer at q5, by a returned False or by a fault of the store --
\* the user is sent the generic error message and neither the thanks nor
\* the follow-up.
C19_FailedFinalizeSendsError ==
    [][\A u \in Actors :
        (ev'.user = u /\ IsFinalAnswer(ev') /\ WriteFailed(ev'))
        => ev'.msgs = <<TXT(get_lang(langCache', u), "err")>>]_vars


\* the locale the "users" worksheet holds for a user (NoneVal when it has
\* no row of the user)
PersistedLang(sheet, uid) ==
    IF FindRow(sheet, Str(uid)) = 0 THEN NoneVal
    ELSE sheet[FindRow(sheet, Str(uid))][2]

\* the resolution order: the cache, else the persisted value, else the default
ResolvedLocale(cache, sheet, uid) ==
    IF uid \in DOMAIN cache THEN cache[uid]
    ELSE IF PersistedLang(sheet, uid) # NoneVal THEN PersistedLang(sheet, uid)
    ELSE DEFAULT_LOCALE

\* C20: a user's locale is resolved from the in-memory cache first, for a
\* user not in the cache from the value persisted in the language table,
\* and only when neither exists from the configured default: after a
\* restart (empty cache) a user whose choice was persisted gets that locale.
C20_LocaleResolutionOrder ==
    \A u \in Users : get_lang(langCache, u) = ResolvedLocale(langCache, users, u)


\* the cached locale of a user (NoneVal for a user not in the cache)
CachedLocale(cache, uid) == IF uid \in DOMAIN cache THEN cache[uid] ELSE NoneVal

\* C21: updates of different users are independent in any order: handling
\* an event of user B never changes the step, the answers or the cached
\* locale of another user A.
C21_UsersAreIndependent ==
    [][\A a \in Users :
        (ev'.user \in Users /\ ev'.user # a)
        => /\ fsmState'[a] = fsmState[a]
           /\ fsmData'[a] = fsmData[a]
           /\ CachedLocale(langCache', a) = CachedLocale(langCache, a)]_vars

\* user 101 is at q1 with a company answer and the locale uz, and the last
\* event was user 102 choosing the locale ru
C21_Witness ==
    /\ ev.user = 102
    /\ ev.op = "cb_lang"
    /\ CachedLocale(langCache, 102) = "ru"
    /\ fsmState[101] = "Form:q1"
    /\ "company" \in DOMAIN fsmData[101]
    /\ CachedLocale(langCache, 101) = "uz"


\* the columns append_feedback_row fills from the user and the clock
IdentityColumns == {"timestamp", "user_id", "username", "full_name", "raw_json"}

\* the value the handler of event e supplies under a column name: an answer
\* of the survey at finalize, a captured field at an amendment, none ("")
\* otherwise; data is the session's answers before the event
SuppliedUnder(e, data, name) ==
    IF IsAmend(e) /\ name \in AmendColumns(e) THEN Supplied(data, e, name)
    ELSE IF IsFinalize(e) /\ \E k \in SurveyKeys : SurveyColumn(k) = name
        THEN Bind(CHOOSE k \in SurveyKeys : SurveyColumn(k) = name,
                  LAMBDA k : IF k = "q5" THEN AnswerValue(e) ELSE Get(data, k))
    ELSE ""

\* C22: rows are written by column name: whatever the header of the
\* worksheet (the canonical names in any order, possibly extended), an
\* append that succeeds at once adds a row as wide as the header in which
\* every supplied value is under the column of its name and every other
\* column (but those of the user's identity) is blank; on a worksheet
\* without a header the canonical header is written first and used.
C22_RowsWrittenByColumnName ==
    [][\A u \in Actors :
        (/\ ev'.user = u /\ (IsFinalize(ev') \/ IsAmend(ev'))
         /\ ev'.append.called /\ ev'.append.ok /\ ev'.append.attempts = 1)
        => LET header == IF feedback = << >> THEN FEEDBACK_HEADERS ELSE feedback[1]
               new == feedback'[Len(feedback')]
           IN  /\ feedback'[1] = header
               /\ DataRows(feedback') = DataRows(feedback) + 1
               /\ Len(new) = Len(header)
               /\ CellOf(feedback', Len(feedback'), "user_id") = Str(u)
               /\ \A c \in 1..Len(header) :
                     header[c] \notin IdentityColumns
                         => new[c] = SuppliedUnder(ev', fsmData[u], header[c])]_vars


\* C23: within one append_feedback_row call the worksheet handle is opened
\* anew for each write attempt: attempt k writes through a handle opened
\* after attempt k-1 failed (after at least k-1 failed attempts), never
\* through the handle of an earlier failed attempt.
C23_HandleReopenedPerAttempt ==
    ev.append.called
        => \A k \in 1..Len(ev.append.handles) : ev.append.handles[k] >= k - 1


\* C24: a failure of update_cell during an amendment is not fatal to the
\* interaction: once the user's row was found, whichever cell update fails,
\* the contact or comment handler completes -- it ends without an uncaught
\* exception, the session is cleared and the user gets the acknowledgement.
C24_UpdateFailureIsNotFatal ==
    [][\A u \in Actors :
        (ev'.user = u /\ IsAmend(ev') /\ ev'.row # 0)
        => /\ ~ev'.raised
           /\ fsmState'[u] = NoState
           /\ fsmData'[u] = EmptyData
           /\ ev'.msgs = SavedAck(langCache', ev')]_vars


\* the rows of a user in the "users" worksheet
LangRowsOf(sheet, uid) == {r \in 2..Len(sheet) : sheet[r][1] = Str(uid)}

\* C25: after any sequence of locale selections (language button, start
\* button, re-selection) and whatever store calls of set_user_lang fail,
\* the language table holds at most one row per user, and that row holds
\* the user's cached locale; the cache is written before any store call and
\* whatever the calls' outcome.
C25_OneLangRowPerUser ==
    \A u \in Users :
        /\ Cardinality(LangRowsOf(users, u)) <= 1
        /\ \A r \in LangRowsOf(users, u) :
              u \in DOMAIN langCache => users[r][2] = langCache[u]
        /\ (ev.user = u /\ ev.op = "cb_lang")
              => CachedLocale(langCache, u) = (IF ev.input = <<"lang_ru">> THEN "ru" ELSE "uz")

\* C26: one append_feedback_row call adds at most one row to the feedback
\* table, whatever its attempts do: a timed-out attempt followed by a retry
\* never stores the row twice, and a call that returns failure has added no
\* row.
C26_AppendAddsAtMostOneRow ==
    [][(ev'.append.called /\ ~ev'.append.raised)
        => /\ Len(feedback') <= Len(feedback) + 1
           /\ (~ev'.append.ok => DataRows(feedback') = DataRows(feedback))]_vars

\* C27: answering q5 by a scale button and by typing the same value are
\* equivalent: under the same store behaviour (success, returned failure,
\* raised fault) both leave the same session, the same feedback table, send
\* the user the same messages and send the observers the same notification.
C27_ButtonAndTextAnswerAgree ==
    \A u \in Users :
        fsmState[u] = "Form:q5" =>
            \A d \in {b \in CallbackInputs : Len(b) = 3 /\ b[2] = "q5"} :
            \A p \in AppendPlans(feedback) :
                LET val == parse_answer(d).val
                    button == cb_answers_q5(u, val, p.g, p.wp)
                    typed == q5_text(u, val, p.g, p.wp)
                IN  /\ button.state = typed.state
                    /\ button.data = typed.data
                    /\ button.sheet = typed.sheet
                    /\ button.msgs = typed.msgs
                    /\ button.notify = typed.notify

\* C28: after an answer given at the terminal step q5 (by text or by
\* button) has been handled, the session of the user is cleared -- no step,
\* no answers -- whether the persistence write succeeded or failed.
C28_SessionClearedAfterFinalAnswer ==
    [][IsFinalAnswer(ev')
        => /\ fsmState'[ev'.user] = NoState
           /\ fsmData'[ev'.user] = EmptyData]_vars

====
